---- MODULE Spec2Model ----
(***************************************************************************)
(* A model of pycanopenclient.CANopenClient (src/pycanopenclient/          *)
(* canopenclient.py): the socket handle, connect / disconnect, and the     *)
(* framing, transmission and receive loop of sendCommand, together with    *)
(* the daemon at the other end of the socket; and the command-line main    *)
(* that drives the client (src/cocomm.py, src/cli.py).                     *)
(*                                                                         *)
(* Text (a Python str) is a sequence of Unicode code points; bytes are a   *)
(* sequence of integers 0..255.                                            *)
(***************************************************************************)
EXTENDS Integers, Sequences, FiniteSets, TLC

\* ------------------------------------------------------------------ bounds

\* Unframed commands are sent with an index in 1..MaxIndex (and a few others).
MaxIndex == 2
\* The daemon stops writing once this many bytes are in flight to the client.
MaxStream == 4
\* The command-line run reads at most this many commands from its input.
MaxLines == 3

\* -------------------------------------------------------- program constants

\* self.sock.recv(1024)
RecvBufSize == 1024

\* def sendCommand(self, cmd, index=1)
DefaultIndex == 1

None == "None"

\* ---------------------------------------------------------------- text

Min(a, b) == IF a < b THEN a ELSE b

\* "{0}".format(n) for a non-negative integer: its decimal digits.
RECURSIVE Digits(_)
Digits(n) == IF n < 10 THEN <<48 + n>> ELSE Digits(n \div 10) \o <<48 + (n % 10)>>

\* "{0}".format(index) for an integer index.
IntToStr(n) == IF n < 0 THEN <<45>> \o Digits(0 - n) ELSE Digits(n)

\* An encoder with errors='replace': a surrogate is sent as "?".
EncodeChar_Replace(cp) ==
    IF cp < 128 THEN [ok |-> TRUE, bytes |-> <<cp>>]
    ELSE IF cp < 2048 THEN
        [ok |-> TRUE, bytes |-> <<192 + (cp \div 64), 128 + (cp % 64)>>]
    ELSE IF cp \in 55296..57343 THEN [ok |-> TRUE, bytes |-> <<63>>]
    ELSE IF cp < 65536 THEN
        [ok |-> TRUE,
         bytes |-> <<224 + (cp \div 4096), 128 + ((cp \div 64) % 64), 128 + (cp % 64)>>]
    ELSE
        [ok |-> TRUE,
         bytes |-> <<240 + (cp \div 262144), 128 + ((cp \div 4096) % 64),
                     128 + ((cp \div 64) % 64), 128 + (cp % 64)>>]

\* One code point encoded as strict UTF-8; the surrogates U+D800..U+DFFF raise
\* UnicodeEncodeError.
EncodeChar(cp) ==
    IF cp < 128 THEN [ok |-> TRUE, bytes |-> <<cp>>]
    ELSE IF cp < 2048 THEN
        [ok |-> TRUE, bytes |-> <<192 + (cp \div 64), 128 + (cp % 64)>>]
    ELSE IF cp \in 55296..57343 THEN [ok |-> FALSE, bytes |-> <<>>]
    ELSE IF cp < 65536 THEN
        [ok |-> TRUE,
         bytes |-> <<224 + (cp \div 4096), 128 + ((cp \div 64) % 64), 128 + (cp % 64)>>]
    ELSE
        [ok |-> TRUE,
         bytes |-> <<240 + (cp \div 262144), 128 + ((cp \div 4096) % 64),
                     128 + ((cp \div 64) % 64), 128 + (cp % 64)>>]

\* message.encode('UTF-8', 'strict')
RECURSIVE Encode(_)
Encode(text) ==
    IF text = <<>> THEN [ok |-> TRUE, bytes |-> <<>>]
    ELSE LET h == EncodeChar(Head(text))
             t == Encode(Tail(text))
         IN IF h.ok /\ t.ok THEN [ok |-> TRUE, bytes |-> h.bytes \o t.bytes]
            ELSE [ok |-> FALSE, bytes |-> <<>>]

IsCont(b) == b \in 128..191

\* rxBytes.decode('UTF-8', 'strict') from position i on, acc being the text
\* decoded so far: a truncated, overlong or otherwise invalid sequence raises
\* UnicodeDecodeError and nothing is decoded.
RECURSIVE DecodeFrom(_, _, _)
DecodeFrom(b, i, acc) ==
    LET n    == Len(b)
        fail == [ok |-> FALSE, text |-> <<>>]
    IN
    IF i > n THEN [ok |-> TRUE, text |-> acc]
    ELSE LET b0 == b[i] IN
      IF b0 < 128 THEN DecodeFrom(b, i + 1, Append(acc, b0))
      ELSE IF b0 \in 194..223 THEN
        IF i + 1 <= n /\ IsCont(b[i + 1])
        THEN DecodeFrom(b, i + 2, Append(acc, (b0 - 192) * 64 + (b[i + 1] - 128)))
        ELSE fail
      ELSE IF b0 \in 224..239 THEN
        IF /\ i + 2 <= n
           /\ IsCont(b[i + 1])
           /\ IsCont(b[i + 2])
           /\ (b0 = 224 => b[i + 1] >= 160)
           /\ (b0 = 237 => b[i + 1] <= 159)
        THEN DecodeFrom(b, i + 3,
               Append(acc, (b0 - 224) * 4096 + (b[i + 1] - 128) * 64 + (b[i + 2] - 128)))
        ELSE fail
      ELSE IF b0 \in 240..244 THEN
        IF /\ i + 3 <= n
           /\ IsCont(b[i + 1])
           /\ IsCont(b[i + 2])
           /\ IsCont(b[i + 3])
           /\ (b0 = 240 => b[i + 1] >= 144)
           /\ (b0 = 244 => b[i + 1] <= 143)
        THEN DecodeFrom(b, i + 4,
               Append(acc, (b0 - 240) * 262144 + (b[i + 1] - 128) * 4096
                           + (b[i + 2] - 128) * 64 + (b[i + 3] - 128)))
        ELSE fail
      ELSE fail

Decode(b) == DecodeFrom(b, 1, <<>>)

\* A receive loop that stops at "\r" alone.
HasTerminator_OnlyCR(data) ==
    \E i \in 1..Len(data) : data[i] = 13

\* "\r\n" in data
HasTerminator(data) ==
    \E i \in 1..(Len(data) - 1) : data[i] = 13 /\ data[i + 1] = 10

\* str.isspace() of one character: the whitespace str.strip() removes.
IsSpace(cp) ==
    \/ cp \in 9..13
    \/ cp \in 28..32
    \/ cp \in {133, 160, 5760, 8232, 8233, 8239, 8287, 12288}
    \/ cp \in 8192..8202

RECURSIVE LStrip(_)
LStrip(t) == IF t # <<>> /\ IsSpace(Head(t)) THEN LStrip(Tail(t)) ELSE t

RECURSIVE RStrip(_)
RStrip(t) ==
    IF t # <<>> /\ IsSpace(t[Len(t)]) THEN RStrip(SubSeq(t, 1, Len(t) - 1)) ELSE t

\* A strip that removes leading whitespace only.
Strip_LeftOnly(t) == LStrip(t)

\* str.strip()
Strip(t) == RStrip(LStrip(t))

\* A clean-up that leaves the null characters in.
RemoveNul_Keep(t) == t

\* data.replace("\x00", "")
IsNotNul(cp) == cp # 0
RemoveNul(t) == SelectSeq(t, IsNotNul)

\* data.replace("\x00", "").strip()
Clean(data) == Strip(RemoveNul(data))

\* cmd[0] == '[' ; cmd[0] of the empty string raises IndexError.
FirstCharRaises(cmd) == cmd = <<>>
StartsFramed(cmd) == cmd[1] = 91

\* A sendCommand that frames every command, framed or not.
BuildMessage_AlwaysFrames(cmd, index) ==
    <<91>> \o IntToStr(index) \o <<93, 32>> \o cmd

\* The message sendCommand builds from a non-empty command.
BuildMessage(cmd, index) ==
    IF StartsFramed(cmd) THEN cmd
    ELSE <<91>> \o IntToStr(index) \o <<93, 32>> \o cmd

\* ---------------------------------------------------------------- inputs

\* SocketType.UNIX, SocketType.TCP, and any other value a caller may pass.
SocketTypes == {"UNIX", "TCP", "OTHER"}
\* platform.system()
Platforms == {"Linux", "Windows", "Darwin"}

\* Command strings: "", "r", "[3]", "[" e-acute, and a lone surrogate (which
\* strict UTF-8 does not encode).
Commands ==
    {<<>>, <<114>>, <<91, 51, 93>>, <<91, 233>>, <<55296>>}
Indices == (1..MaxIndex) \cup {12}

\* What the daemon may write for one request: "OK\r\n", "e-acute\r\n",
\* "\x00K\r\n", "OK" with no terminator, and the terminator followed by a
\* padding null byte.
Replies ==
    {<<79, 75, 13, 10>>, <<195, 169, 13, 10>>, <<0, 75, 13, 10>>,
     <<79, 75>>, <<13, 10, 0>>}

\* The exchanges of the interface description: the command "read 0x1018 1",
\* and the daemon's replies "[1] OK\r\n", "   [1] ERROR: 101  \r\n" and
\* "[1] OK\x00\x00\r\n".
ReadCmd == <<114, 101, 97, 100, 32, 48, 120, 49, 48, 49, 56, 32, 49>>
OkReply == <<91, 49, 93, 32, 79, 75, 13, 10>>
ErrorReply ==
    <<32, 32, 32, 91, 49, 93, 32, 69, 82, 82, 79, 82, 58, 32, 49, 48, 49,
      32, 32, 13, 10>>
PaddedOkReply == <<91, 49, 93, 32, 79, 75, 0, 0, 13, 10>>
ExampleCommands == {ReadCmd}
ExampleReplies == {OkReply, ErrorReply, PaddedOkReply}

\* ----------------------------------------------------------------- state

VARIABLES
    sock,            \* self.sock: None, or the socket object's state
    sock_type,       \* self.sock_type
    platformSystem,  \* platform.system()
    pc,              \* "idle", or "recv": inside sendCommand's receive loop
    data,            \* sendCommand's local data
    peer,            \* the daemon's end of the connection: none, up, closed, reset
    stream,          \* bytes the daemon has written that the client has not read
    last,            \* the call in progress or last completed, and what it did
    cli              \* main(): where it is, where its commands come from, how
                     \* many sendCommand calls it has made, and the command
                     \* argument as typed

vars == <<sock, sock_type, platformSystem, pc, data, peer, stream, last, cli>>

\* What a call's record keeps of the call before it.
Summary(l) ==
    [op |-> l.op, retOk |-> l.retOk, setup |-> l.setup, closed |-> l.closed,
     exc |-> l.exc]

\* The record of a call before it does anything: what it returns, what it did
\* to the socket (setup: sockets created and connection attempts made;
\* connFailed: the attempt failed; closed: the state of the socket close() was
\* called on, None when it was not called; nsend: sendall calls; tx: the bytes
\* the daemon received; recvd: recv was called; exc: the exception raised;
\* raised: the exception reached the caller), the state it was called in, what
\* the daemon answered (reply) and what recv delivered (rxAll, crlfSplit, the
\* length of the latest chunk, and the parity of the number of times recv
\* returned b"").
NewCall(op, before) ==
    [op |-> op, returned |-> TRUE, retOk |-> FALSE, retText |-> <<>>,
     cmd |-> <<>>, index |-> 0,
     setup |-> 0, connFailed |-> FALSE, closed |-> None,
     nsend |-> 0, tx |-> <<>>, recvd |-> FALSE, exc |-> "none", raised |-> FALSE,
     sockAtCall |-> sock, peerAtCall |-> peer, fresh |-> (stream = <<>>),
     rxAll |-> <<>>, reply |-> <<>>, crlfSplit |-> FALSE,
     lastLen |-> 0, eofParity |-> 0,
     prev |-> before]

Blank(op) == NewCall(op, Summary(last))

NoCall == [op |-> "none", retOk |-> FALSE, setup |-> 0, closed |-> None, exc |-> "none"]

\* The client used as a library: no main() is running.
NoCli == [pc |-> "off", mode |-> "none", sent |-> 0, arg |-> <<>>]

Init ==
    /\ sock = None
    /\ sock_type \in SocketTypes
    /\ platformSystem \in Platforms
    /\ pc = "idle"
    /\ data = <<>>
    /\ peer = "none"
    /\ stream = <<>>
    /\ last = [NewCall("none", NoCall) EXCEPT !.sockAtCall = None,
                                               !.peerAtCall = "none",
                                               !.fresh = TRUE]
    /\ cli = NoCli

\* --------------------------------------------------------------- connect

\* A connectUnixSocket() that does not look at the platform.
ConnectUnixSocket_AnyPlatform(connected) ==
    [sock |-> IF connected THEN "connected" ELSE "unconnected",
     ret |-> connected, setup |-> 1]

\* connectUnixSocket(), connected being whether the OS connect succeeds:
\* the socket object is assigned to self.sock before the connection attempt.
ConnectUnixSocket(connected) ==
    IF platformSystem = "Linux"
    THEN [sock |-> IF connected THEN "connected" ELSE "unconnected",
          ret |-> connected, setup |-> 1]
    ELSE [sock |-> sock, ret |-> FALSE, setup |-> 0]

\* connectTcpSocket(): self.sock is assigned only if create_connection returns.
ConnectTcpSocket(connected) ==
    IF platformSystem \in {"Linux", "Windows"}
    THEN [sock |-> IF connected THEN "connected" ELSE sock,
          ret |-> connected, setup |-> 1]
    ELSE [sock |-> sock, ret |-> FALSE, setup |-> 0]

\* A connect() that does not look at the handle it already holds.
SockIsNone_NotTested == TRUE

\* self.sock == None, the guard of connect().
SockIsNone == sock = None

\* connect()
ConnectResult(connected) ==
    IF SockIsNone
    THEN IF sock_type = "UNIX" THEN ConnectUnixSocket(connected)
         ELSE IF sock_type = "TCP" THEN ConnectTcpSocket(connected)
         ELSE [sock |-> sock, ret |-> FALSE, setup |-> 0]
    ELSE [sock |-> sock, ret |-> TRUE, setup |-> 0]

Connect ==
    /\ pc = "idle"
    /\ \E connected \in BOOLEAN :
         LET r == ConnectResult(connected) IN
         /\ sock' = r.sock
         /\ last' = [Blank("connect") EXCEPT !.retOk = r.ret, !.setup = r.setup,
                                              !.connFailed = (r.setup = 1 /\ ~connected)]
         /\ IF r.setup = 1 /\ r.sock = "connected"
            THEN peer' = "up" /\ stream' = <<>>
            ELSE UNCHANGED <<peer, stream>>
    /\ UNCHANGED <<sock_type, platformSystem, pc, data>>

\* ------------------------------------------------------------ disconnect

\* A disconnect() that closes the socket and keeps the handle.
SockAfterClose_Kept == "closed"

\* A disconnect() that neither closes the socket nor clears the handle.
SockAfterClose_Untouched == sock

\* self.sock after disconnect(): the socket is closed and the handle cleared.
SockAfterClose == None

\* disconnect()
Disconnect ==
    /\ pc = "idle"
    /\ IF sock # None
       THEN /\ sock' = SockAfterClose
            /\ last' = [Blank("disconnect") EXCEPT !.closed = sock]
            /\ peer' = "none"
            /\ stream' = <<>>
       ELSE /\ last' = Blank("disconnect")
            /\ UNCHANGED <<sock, peer, stream>>
    /\ UNCHANGED <<sock_type, platformSystem, pc, data>>

\* ----------------------------------------------------------- sendCommand

\* self.sock.sendall(txBytes): whether it can return, and whether it can raise.
\* A socket that was never connected (or is closed) raises; with the daemon's
\* end up it returns; after the daemon closed or reset, either happens.
SendallCanReturn == sock = "connected"
SendallCanRaise == sock # "connected" \/ peer # "up"

\* self.sock == None, the guard of sendCommand().
NotConnected == sock = None

\* What the daemon may write on receiving a request: one of Replies, or
\* nothing (yet); nothing once its end is closed or reset.
DaemonAnswers ==
    IF peer = "up"
    THEN {r \in Replies \cup {<<>>} : Len(stream) + Len(r) <= MaxStream}
    ELSE {<<>>}

\* A sendCommand whose except clause lets everything but socket errors through.
Caught_OnlySocketErrors(exc) == exc \in {"send", "recv"}

\* except Exception: every exception raised in sendCommand's try block (the
\* IndexError of cmd[0], the encode and decode errors, the socket errors of
\* sendall and recv) is caught.
Caught(exc) == exc \in {"index", "encode", "send", "recv", "decode"}

\* A sendCommand that drops the handle when it catches an exception.
SockAfterException_Dropped == None

\* self.sock after sendCommand's except clause, which only prints.
SockAfterException == sock

\* sendCommand leaves at the end of its try block (exc = "none") or through
\* its except clause, returning text; an exception that is not caught reaches
\* the caller instead.
Return(l, text, exc) ==
    /\ pc' = "idle"
    /\ data' = text
    /\ sock' = IF exc = "none" THEN sock ELSE SockAfterException
    /\ last' = IF exc = "none" \/ Caught(exc)
               THEN [l EXCEPT !.returned = TRUE, !.retText = text, !.exc = exc]
               ELSE [l EXCEPT !.returned = FALSE, !.raised = TRUE, !.exc = exc]

\* sendCommand(cmd, index) from its entry to the first recv, or to its return
\* when it returns before receiving. The daemon's answer to the request, one
\* of answers, is put in flight with the request's arrival; recv then delivers
\* it in chunks.
SendCommandTo(cmd, index, answers) ==
    /\ pc = "idle"
    /\ LET call == [Blank("sendCommand") EXCEPT !.cmd = cmd, !.index = index] IN
       IF NotConnected
       THEN /\ last' = call
            /\ UNCHANGED <<pc, data, stream, sock>>
       ELSE IF FirstCharRaises(cmd)
       THEN Return(call, <<>>, "index") /\ UNCHANGED stream
       ELSE LET e == Encode(BuildMessage(cmd, index)) IN
            IF ~e.ok THEN Return(call, <<>>, "encode") /\ UNCHANGED stream
            ELSE \/ /\ SendallCanRaise
                    /\ Return([call EXCEPT !.nsend = 1], <<>>, "send")
                    /\ UNCHANGED stream
                 \/ /\ SendallCanReturn
                    /\ \E r \in answers :
                         /\ stream' = stream \o r
                         /\ last' = [call EXCEPT !.nsend = 1, !.tx = e.bytes,
                                                 !.returned = FALSE, !.reply = r]
                    /\ pc' = "recv"
                    /\ data' = <<>>
                    /\ sock' = sock
    /\ UNCHANGED <<sock_type, platformSystem, peer>>

SendCommand(cmd, index) == SendCommandTo(cmd, index, DaemonAnswers)

\* What the call has received, for the properties: the bytes, whether a chunk
\* ended in "\r" with the next one starting with "\n", the length of the
\* latest chunk, the parity of the empty reads.
Received(l, chunk) ==
    [l EXCEPT !.recvd = TRUE,
              !.rxAll = @ \o chunk,
              !.crlfSplit = @ \/ (/\ l.rxAll # <<>>
                                  /\ chunk # <<>>
                                  /\ l.rxAll[Len(l.rxAll)] = 13
                                  /\ chunk[1] = 10),
              !.lastLen = Len(chunk),
              !.eofParity = IF chunk = <<>> THEN 1 - @ ELSE @]

\* One pass of the receive loop on the chunk recv returned: decode, append,
\* test for the terminator; then the clean-up and the return.
Receive(chunk) ==
    LET d == Decode(chunk)
        l == Received(last, chunk)
    IN
    IF ~d.ok THEN Return(l, data, "decode")
    ELSE IF HasTerminator(data \o d.text) THEN Return(l, Clean(data \o d.text), "none")
    ELSE /\ data' = data \o d.text
         /\ pc' = pc
         /\ sock' = sock
         /\ last' = l

\* rxBytes = self.sock.recv(1024) and the rest of the loop body. recv returns
\* between 1 and 1024 of the bytes in flight; with none in flight it blocks
\* while the daemon's end is up, returns b"" after the daemon closed, and
\* raises once after a reset.
Recv ==
    /\ pc = "recv"
    /\ \/ /\ stream # <<>>
          /\ \E k \in 1..Min(Len(stream), RecvBufSize) :
               /\ stream' = SubSeq(stream, k + 1, Len(stream))
               /\ Receive(SubSeq(stream, 1, k))
               /\ UNCHANGED peer
       \/ /\ stream = <<>>
          /\ peer = "closed"
          /\ Receive(<<>>)
          /\ UNCHANGED <<stream, peer>>
       \/ /\ stream = <<>>
          /\ peer = "reset"
          /\ Return([last EXCEPT !.recvd = TRUE], data, "recv")
          /\ peer' = "closed"
          /\ UNCHANGED stream
    /\ UNCHANGED <<sock_type, platformSystem>>

\* ---------------------------------------------------------------- daemon

\* The daemon closes its end: what it wrote stays readable, then end of file.
PeerClose ==
    /\ peer = "up"
    /\ peer' = "closed"
    /\ UNCHANGED <<sock, sock_type, platformSystem, pc, data, stream, last>>

\* The connection is reset: what was in flight is lost.
PeerReset ==
    /\ peer = "up"
    /\ peer' = "reset"
    /\ stream' = <<>>
    /\ UNCHANGED <<sock, sock_type, platformSystem, pc, data, last>>

\* ------------------------------------------------------------------ system

Next ==
    \/ Connect /\ UNCHANGED cli
    \/ Disconnect /\ UNCHANGED cli
    \/ \E cmd \in Commands, index \in Indices :
         SendCommand(cmd, index) /\ UNCHANGED cli
    \/ Recv /\ UNCHANGED cli
    \/ PeerClose /\ UNCHANGED cli
    \/ PeerReset /\ UNCHANGED cli

Spec == Init /\ [][Next]_vars

\* The client with a receive loop that keeps running: a recv that can return
\* (or raise) does so, and the loop body follows.
SpecLive == Spec /\ WF_vars(Recv /\ UNCHANGED cli)

\* The daemon of the example exchanges: it answers a request with one of
\* ExampleReplies when nothing else is in flight.
ExampleAnswers ==
    IF peer = "up" /\ stream = <<>> THEN ExampleReplies ELSE {<<>>}

\* The client driven with the example commands, sent without an explicit
\* index, against that daemon.
NextExchange ==
    \/ Connect /\ UNCHANGED cli
    \/ Disconnect /\ UNCHANGED cli
    \/ \E cmd \in ExampleCommands :
         SendCommandTo(cmd, DefaultIndex, ExampleAnswers) /\ UNCHANGED cli
    \/ Recv /\ UNCHANGED cli
    \/ PeerClose /\ UNCHANGED cli
    \/ PeerReset /\ UNCHANGED cli

SpecExchange == Init /\ [][NextExchange]_vars

\* ---------------------------------------------------------------- main()

\* Lines of the input file or of standard input: "r", "", "[3]" and "exit".
ExitWord == <<101, 120, 105, 116>>
CliLines == {<<114>>, <<>>, <<91, 51, 93>>, ExitWord}
\* The command argument as typed: "r", "[3]", "r 1".
ArgCommands == {<<114>>, <<91, 51, 93>>, <<114, 32, 49>>}
\* What main() reads its commands from.
CliModes == {"file", "arg", "stdin"}

\* sub in t
Contains(sub, t) ==
    \E i \in 0..(Len(t) - Len(sub)) : SubSeq(t, i + 1, i + Len(sub)) = sub

\* AppArgs.parse: for cmd in args.command: self.command = self.command + cmd
\* + " ", then strip(): the loop runs over the characters of the argument.
RECURSIVE JoinChars(_)
JoinChars(t) ==
    IF t = <<>> THEN <<>> ELSE <<Head(t), 32>> \o JoinChars(Tail(t))
ParsedCommand(arg) == Strip(JoinChars(arg))

\* A main() that numbers its commands.
IndexOfCall_Counting(n) == n + 1

\* The index of the sendCommand main() makes after n others: main() passes
\* none, so it is the default of the parameter.
IndexOfCall(n) == DefaultIndex

\* main() is started: the client is TCP or UNIX according to the arguments.
InitCli ==
    /\ sock = None
    /\ sock_type \in {"UNIX", "TCP"}
    /\ platformSystem \in Platforms
    /\ pc = "idle"
    /\ data = <<>>
    /\ peer = "none"
    /\ stream = <<>>
    /\ last = [NewCall("none", NoCall) EXCEPT !.sockAtCall = None,
                                               !.peerAtCall = "none",
                                               !.fresh = TRUE]
    /\ \E m \in CliModes :
         cli = [pc |-> "start", mode |-> m, sent |-> 0, arg |-> <<>>]

\* isOk = client.connect(); if isOk == False: return
MainConnect ==
    /\ cli.pc = "start"
    /\ Connect
    /\ cli' = [cli EXCEPT !.pc = IF last'.retOk THEN "run" ELSE "done"]

\* main()'s call client.sendCommand(cmd), its n-th.
MainSend(cmd) ==
    /\ cli.sent < MaxLines
    /\ SendCommandTo(cmd, IndexOfCall(cli.sent), DaemonAnswers)

\* for line in file: client.sendCommand(line) -- a line ends in "\n".
MainFileLine ==
    /\ cli.pc = "run"
    /\ cli.mode = "file"
    /\ \E line \in CliLines : MainSend(line \o <<10>>)
    /\ cli' = [cli EXCEPT !.sent = @ + 1]

\* The file is exhausted, or open() or the read raised: main() goes on to
\* disconnect.
MainFileEnd ==
    /\ cli.pc = "run"
    /\ cli.mode = "file"
    /\ pc = "idle"
    /\ cli' = [cli EXCEPT !.pc = "closing"]
    /\ UNCHANGED <<sock, sock_type, platformSystem, pc, data, peer, stream, last>>

\* elif args.command != None: client.sendCommand(args.command)
MainArgCommand ==
    /\ cli.pc = "run"
    /\ cli.mode = "arg"
    /\ \E arg \in ArgCommands :
         /\ MainSend(ParsedCommand(arg))
         /\ cli' = [cli EXCEPT !.sent = @ + 1, !.pc = "closing", !.arg = arg]

\* cmd = input(); if "exit" in cmd: break; client.sendCommand(cmd)
MainStdinLine ==
    /\ cli.pc = "run"
    /\ cli.mode = "stdin"
    /\ pc = "idle"
    /\ \E line \in CliLines :
         IF Contains(ExitWord, line)
         THEN /\ cli' = [cli EXCEPT !.pc = "closing"]
              /\ UNCHANGED <<sock, sock_type, platformSystem, pc, data, peer,
                             stream, last>>
         ELSE /\ MainSend(line)
              /\ cli' = [cli EXCEPT !.sent = @ + 1]

\* input() at the end of standard input raises EOFError, which nothing in
\* main() catches.
MainStdinEof ==
    /\ cli.pc = "run"
    /\ cli.mode = "stdin"
    /\ pc = "idle"
    /\ cli' = [cli EXCEPT !.pc = "raised"]
    /\ UNCHANGED <<sock, sock_type, platformSystem, pc, data, peer, stream, last>>

\* client.disconnect(), main()'s last statement.
MainDisconnect ==
    /\ cli.pc = "closing"
    /\ Disconnect
    /\ cli' = [cli EXCEPT !.pc = "done"]

NextCli ==
    \/ MainConnect
    \/ MainFileLine
    \/ MainFileEnd
    \/ MainArgCommand
    \/ MainStdinLine
    \/ MainStdinEof
    \/ MainDisconnect
    \/ Recv /\ UNCHANGED cli
    \/ PeerClose /\ UNCHANGED cli
    \/ PeerReset /\ UNCHANGED cli

SpecCli == InitCli /\ [][NextCli]_vars

\* -------------------------------------------------------------- properties

\* The call just made is a sendCommand on a client whose socket is connected
\* to a daemon whose end is up.
SentOnLiveConnection ==
    /\ last.op = "sendCommand"
    /\ last.sockAtCall = "connected"
    /\ last.peerAtCall = "up"

\* "[" + str(i) + "] " + c
Framed(c, i) == <<91>> \o IntToStr(i) \o <<93, 32>> \o c

\* C1: every command that does not start with "[" (the empty string included)
\* and is encodable, sent with index i on a connected client, is transmitted in
\* one write as the UTF-8 bytes of "[" + str(i) + "] " + c and nothing else.
C1_UnframedIsFramed ==
    (/\ SentOnLiveConnection
     /\ (last.cmd = <<>> \/ last.cmd[1] # 91)
     /\ Encode(last.cmd).ok)
    => /\ last.nsend = 1
       /\ last.tx = Encode(Framed(last.cmd, last.index)).bytes

\* C2: every encodable command that starts with "[", sent on a connected
\* client with any index, is transmitted in one write as its own UTF-8 bytes:
\* it is not framed again and the index does not appear.
C2_FramedIsVerbatim ==
    (/\ SentOnLiveConnection
     /\ last.cmd # <<>>
     /\ last.cmd[1] = 91
     /\ Encode(last.cmd).ok)
    => /\ last.nsend = 1
       /\ last.tx = Encode(last.cmd).bytes

\* C2's case: "[3]" sent with index 12 went out as the three bytes of "[3]".
C2_Witness ==
    /\ SentOnLiveConnection
    /\ last.cmd = <<91, 51, 93>>
    /\ last.index = 12
    /\ last.tx = <<91, 51, 93>>

\* C3: the socket handle is absent or a socket whose connection to the daemon
\* was established; it is never a socket on which connect failed.
C3_HandleAbsentOrConnected ==
    sock \in {None, "connected"}

\* C4: a connect() whose connection attempt failed returned false and left the
\* handle absent (so that the next connect() attempts again).
C4_FailureLeavesHandleAbsent ==
    (last.op = "connect" /\ last.connFailed)
    => /\ ~last.retOk
       /\ sock = None

\* C5: a sendCommand made while the client has no established connection
\* returns the empty string and calls neither sendall nor recv.
C5_UnconnectedSendDoesNoIO ==
    (last.op = "sendCommand" /\ last.sockAtCall # "connected")
    => /\ last.returned
       /\ last.retText = <<>>
       /\ last.nsend = 0
       /\ ~last.recvd

\* The call just made is a connect() that directly follows another connect().
SecondConnect == last.op = "connect" /\ last.prev.op = "connect"

\* C6 as stated: of two connect() calls in succession, both return true and
\* together they set a socket up exactly once.
C6_TwoConnectsBothTrue ==
    SecondConnect
    => /\ last.prev.retOk
       /\ last.retOk
       /\ last.prev.setup + last.setup = 1

\* C6, amended: when a connect() has returned true, a connect() directly after
\* it returns true too, sets no socket up and leaves the handle as it was.
C6_SecondConnectReusesSocket ==
    (SecondConnect /\ last.prev.retOk)
    => /\ last.retOk
       /\ last.setup = 0
       /\ sock = last.sockAtCall

\* C6's case: a connect() that set the socket up, then a connect() that
\* returned true without setting one up.
C6_Witness ==
    /\ SecondConnect
    /\ last.prev.retOk
    /\ last.prev.setup = 1
    /\ last.retOk
    /\ last.setup = 0
    /\ sock = "connected"

\* The call just made directly follows a disconnect() that closed a connected
\* socket.
AfterDisconnectOfConnected ==
    last.prev.op = "disconnect" /\ last.prev.closed = "connected"

\* C7 as stated: once a connected client has been disconnected, no connect()
\* sets a socket up again and the handle stays absent.
C7_ClosedIsFinal ==
    (last.op = "connect" /\ AfterDisconnectOfConnected)
    => /\ last.setup = 0
       /\ sock = None

\* C7, amended: after the disconnect() of a connected client the handle is
\* absent until connect() is called, and that connect() sets a socket up and
\* attempts the connection again, leaving the client connected when the
\* attempt succeeds.
C7_ReconnectAfterDisconnect ==
    AfterDisconnectOfConnected
    => /\ last.sockAtCall = None
       /\ last.op # "connect" => sock = None
       /\ last.op = "connect" =>
            /\ last.setup = 1
            /\ ~last.connFailed => last.retOk /\ sock = "connected"

\* C7's case: a connect() after the disconnect() of a connected client has set
\* a socket up and the client is connected again.
C7_Witness ==
    /\ last.op = "connect"
    /\ AfterDisconnectOfConnected
    /\ last.setup = 1
    /\ last.retOk
    /\ sock = "connected"

\* C8: after any disconnect() the handle is absent; close() is never called on
\* a socket that was already closed; and a disconnect() directly after a
\* disconnect() closes nothing and leaves the handle and the connection as
\* they were.
C8_DisconnectIdempotent ==
    /\ last.op = "disconnect" => sock = None /\ last.closed # "closed"
    /\ (last.op = "disconnect" /\ last.prev.op = "disconnect")
       => /\ last.closed = None
          /\ last.sockAtCall = None
          /\ sock = last.sockAtCall
          /\ peer = last.peerAtCall

\* C8's case: a disconnect() that closed a connected socket, then a second
\* disconnect().
C8_Witness ==
    /\ last.op = "disconnect"
    /\ last.prev.op = "disconnect"
    /\ last.prev.closed = "connected"
    /\ last.closed = None

\* The bytes 13, 10 next to each other somewhere in b.
HasCRLFBytes(b) ==
    \E i \in 1..Len(b) : i < Len(b) /\ b[i] = 13 /\ b[i + 1] = 10

\* C9: a sendCommand that has sent its message and caught no exception has
\* not returned unless the bytes it received in this call, all chunks put
\* together, hold "\r\n"; until then it is still in its receive loop.
C9_ReturnsOnlyAfterTerminator ==
    (last.op = "sendCommand" /\ last.nsend = 1 /\ last.exc = "none")
    => /\ last.returned => HasCRLFBytes(last.rxAll)
       /\ ~HasCRLFBytes(last.rxAll) => pc = "recv"

\* C9's case: the call returned after "\r" and "\n" came in different chunks.
C9_Witness ==
    /\ last.op = "sendCommand"
    /\ last.returned
    /\ last.exc = "none"
    /\ last.crlfSplit
    /\ HasCRLFBytes(last.rxAll)

\* C10: when the daemon answers a request with a reply that is valid UTF-8
\* and ends in "\r\n", and nothing else is in flight, sendCommand returns what
\* it returns when the reply comes in one chunk (the reply decoded and
\* cleaned), however recv cuts the reply into chunks.
C10_SplitDoesNotMatter ==
    (/\ SentOnLiveConnection
     /\ last.fresh
     /\ last.returned
     /\ last.exc \in {"none", "decode"}
     /\ Len(last.reply) >= 2
     /\ last.reply[Len(last.reply) - 1] = 13
     /\ last.reply[Len(last.reply)] = 10
     /\ Decode(last.reply).ok)
    => last.retText = Clean(Decode(last.reply).text)

\* The text holds a null character.
HasNul(t) == \E i \in 1..Len(t) : t[i] = 0

\* C11: the string a sendCommand returns never holds a null character,
\* wherever the bytes received during the call hold null bytes.
C11_ReturnHasNoNul ==
    (last.op = "sendCommand" /\ last.returned) => ~HasNul(last.retText)

\* The call just made is a sendCommand that sent its message, received and
\* returned through the end of its try block.
Successful ==
    /\ last.op = "sendCommand"
    /\ last.returned
    /\ last.recvd
    /\ last.exc = "none"

\* ret is what is left of t when a run of whitespace is taken off each end
\* and nothing else: ret neither starts nor ends with whitespace.
IsTrimOf(ret, t) ==
    /\ ret # <<>> => ~IsSpace(ret[1]) /\ ~IsSpace(ret[Len(ret)])
    /\ \E i \in 0..Len(t) : \E j \in i..Len(t) :
         /\ ret = SubSeq(t, i + 1, j)
         /\ \A k \in 1..i : IsSpace(t[k])
         /\ \A k \in (j + 1)..Len(t) : IsSpace(t[k])

\* "[1] read 0x1018 1", "[1] OK" and "[1] ERROR: 101"
FramedReadCmd == <<91, 49, 93, 32>> \o ReadCmd
OkText == <<91, 49, 93, 32, 79, 75>>
ErrorText == <<91, 49, 93, 32, 69, 82, 82, 79, 82, 58, 32, 49, 48, 49>>

\* The examples of C12: "read 0x1018 1" sent with index 1 is transmitted as
\* "[1] read 0x1018 1"; the reply "[1] OK\r\n" returns "[1] OK" and the reply
\* "   [1] ERROR: 101  \r\n" returns "[1] ERROR: 101".
C12_Examples ==
    /\ (SentOnLiveConnection /\ last.cmd = ReadCmd /\ last.index = 1)
       => last.tx = Encode(FramedReadCmd).bytes
    /\ (Successful /\ last.reply = OkReply) => last.retText = OkText
    /\ (Successful /\ last.reply = ErrorReply) => last.retText = ErrorText

\* C12 as stated: a successful sendCommand returns the received reply with
\* leading and trailing whitespace (the terminator included) removed and
\* every other character preserved in order, as in the examples.
C12_OnlyWhitespaceRemoved ==
    /\ Successful => IsTrimOf(last.retText, Decode(last.rxAll).text)
    /\ C12_Examples

\* C12, amended: a successful sendCommand returns the received reply with its
\* null characters removed and then leading and trailing whitespace (the
\* terminator included) removed, every other character preserved in order,
\* as in the examples.
C12_NulAndOuterWhitespaceRemoved ==
    /\ Successful => IsTrimOf(last.retText, RemoveNul(Decode(last.rxAll).text))
    /\ C12_Examples

\* C12's case: "read 0x1018 1" went out as "[1] read 0x1018 1" and the reply
\* "   [1] ERROR: 101  \r\n" came back as "[1] ERROR: 101".
C12_Witness ==
    /\ Successful
    /\ last.cmd = ReadCmd
    /\ last.tx = Encode(FramedReadCmd).bytes
    /\ last.rxAll = ErrorReply
    /\ last.retText = ErrorText

\* "OK"
BareOkText == <<79, 75>>

\* The reply "[1] OK\r\n" was received with "K\r\n" as its last chunk, after
\* "[1] O".
OkReplyCutAfterO ==
    /\ Successful
    /\ last.rxAll = OkReply
    /\ last.lastLen = 3

\* C13 as stated: for the raw reply "[1] OK\x00\x00\r\n", and for the reply
\* delivered as "[1] O" followed by "K\r\n", sendCommand returns "OK".
C13_ReturnsBareOk ==
    /\ (Successful /\ last.rxAll = PaddedOkReply) => last.retText = BareOkText
    /\ OkReplyCutAfterO => last.retText = BareOkText

\* C13, amended: for the raw reply "[1] OK\x00\x00\r\n", and for the reply
\* delivered as "[1] O" followed by "K\r\n", sendCommand returns "[1] OK":
\* the null bytes and the terminator are gone, the tag is kept.
C13_ReturnsTaggedOk ==
    /\ (Successful /\ last.rxAll = PaddedOkReply) => last.retText = OkText
    /\ OkReplyCutAfterO => last.retText = OkText

\* C13's case: the reply came as "[1] O" then "K\r\n" and "[1] OK" was
\* returned.
C13_Witness ==
    /\ OkReplyCutAfterO
    /\ last.retText = OkText

\* C14: no connect(), disconnect() or sendCommand() lets an exception reach
\* its caller, whatever the socket does and whatever the command text is:
\* every call returns, connect() a boolean (false when the connection attempt
\* failed) and sendCommand() a string; whatever is raised inside sendCommand
\* ends in its return.
C14_NoExceptionReachesCaller ==
    /\ ~last.raised
    /\ pc = "idle" => last.returned
    /\ last.op = "connect" =>
         /\ last.retOk \in BOOLEAN
         /\ last.connFailed => ~last.retOk
    /\ (last.op = "sendCommand" /\ last.returned) =>
         last.retText \in Seq(Nat)
    /\ last.exc # "none" =>
         /\ last.op = "sendCommand"
         /\ last.returned
         /\ pc = "idle"

\* C14's case: sendCommand("") on a connected client raised IndexError at
\* cmd[0] and returned the empty string.
C14_Witness ==
    /\ last.op = "sendCommand"
    /\ last.sockAtCall = "connected"
    /\ last.cmd = <<>>
    /\ last.exc = "index"
    /\ last.returned
    /\ last.retText = <<>>

\* C15: the client keeps no sequence counter: every sendCommand main() makes
\* (for a file line, the argument, a line of standard input) has index 1, and
\* what it transmits for a command that does not start with "[" is framed with
\* index 1, however many commands were sent before and whatever came of them.
C15_AlwaysIndexOne ==
    last.op = "sendCommand"
    => /\ last.index = 1
       /\ (/\ SentOnLiveConnection
           /\ last.cmd # <<>>
           /\ last.cmd[1] # 91
           /\ Encode(last.cmd).ok)
          => /\ last.nsend = 1
             /\ last.tx = Encode(<<91, 49, 93, 32>> \o last.cmd).bytes

\* C15's case: main()'s third command, after one that ended in an exception,
\* went out as "[1] r".
C15_Witness ==
    /\ last.op = "sendCommand"
    /\ cli.sent = 3
    /\ last.prev.op = "sendCommand"
    /\ last.prev.exc # "none"
    /\ last.cmd = <<114>>
    /\ last.tx = <<91, 49, 93, 32, 114>>

\* C16: when the peer has closed the connection while a sendCommand is in its
\* receive loop, the call eventually returns; it does not read forever.
C16_PeerCloseEndsCall ==
    (pc = "recv" /\ peer = "closed") ~> (pc = "idle")

\* C17: sendCommand never changes the connection state: on every path the
\* socket handle during and after the call is the one before it and close()
\* is not called on it; and a sendCommand that follows another on a client
\* that holds a socket, with a command that can be built and encoded, calls
\* sendall again, whatever came of the call before.
C17_SendCommandKeepsConnection ==
    last.op = "sendCommand"
    => /\ sock = last.sockAtCall
       /\ last.closed = None
       /\ sock # "closed"
       /\ (/\ last.prev.op = "sendCommand"
           /\ last.sockAtCall # None
           /\ last.cmd # <<>>
           /\ Encode(last.cmd).ok)
          => last.nsend = 1

\* C17's case: a sendCommand that ended in a decode error, then a sendCommand
\* on the same connected socket that transmitted its message.
C17_Witness ==
    /\ last.op = "sendCommand"
    /\ last.prev.op = "sendCommand"
    /\ last.prev.exc = "decode"
    /\ sock = "connected"
    /\ last.nsend = 1
    /\ last.tx # <<>>

\* The text holds a surrogate code point, which strict UTF-8 does not encode.
HasSurrogate(t) == \E i \in 1..Len(t) : t[i] \in 55296..57343

\* What goes out for cmd sent with index i.
Message(c, i) == IF c[1] = 91 THEN c ELSE Framed(c, i)

\* C18: when the message cannot be encoded as strict UTF-8, sendCommand
\* sends nothing, reads nothing and returns the empty string; and the next
\* sendCommand on the same connection, with an encodable command, is
\* transmitted as usual.
C18_UnencodableSendsNothing ==
    /\ (/\ last.op = "sendCommand"
        /\ last.sockAtCall # None
        /\ HasSurrogate(last.cmd))
       => /\ last.returned
          /\ last.exc = "encode"
          /\ last.nsend = 0
          /\ last.tx = <<>>
          /\ ~last.recvd
          /\ last.retText = <<>>
          /\ sock = last.sockAtCall
    /\ (/\ SentOnLiveConnection
        /\ last.prev.op = "sendCommand"
        /\ last.prev.exc = "encode"
        /\ last.cmd # <<>>
        /\ ~HasSurrogate(last.cmd))
       => /\ last.nsend = 1
          /\ last.tx = Encode(Message(last.cmd, last.index)).bytes

\* C18's case: after a command that could not be encoded, "r" with index 1
\* went out as "[1] r" on the same connection.
C18_Witness ==
    /\ SentOnLiveConnection
    /\ last.prev.op = "sendCommand"
    /\ last.prev.exc = "encode"
    /\ last.cmd = <<114>>
    /\ last.index = 1
    /\ last.tx = <<91, 49, 93, 32, 114>>

\* C19: in a sequence of successful sendCommand calls, each call is delivered
\* exactly the bytes of its own reply, none of them left in flight for the
\* next call, however recv cuts the stream; and it returns that reply
\* cleaned, with no "\r\n" inside.
C19_EachCallGetsItsReply ==
    (Successful /\ last.fresh)
    => /\ last.rxAll = last.reply
       /\ stream = <<>>
       /\ last.retText = Clean(Decode(last.reply).text)
       /\ ~HasTerminator(last.retText)

\* C20: whenever main() has finished, by returning or by an exception, the
\* client holds no socket: one that connect() created has been closed by
\* disconnect().
C20_MainClosesSocket ==
    cli.pc \in {"done", "raised"} => sock = None

\* The client's configuration is not supported: the socket kind is neither
\* UNIX nor TCP, or it is UNIX on a platform other than Linux.
Unsupported ==
    \/ sock_type \notin {"UNIX", "TCP"}
    \/ sock_type = "UNIX" /\ platformSystem # "Linux"

\* C21: connect() on an unsupported configuration returns false without
\* creating a socket or doing any I/O (no connection attempt, nothing in
\* flight, no peer), and the handle is absent before and after it.
C21_UnsupportedConnectDoesNothing ==
    (last.op = "connect" /\ Unsupported)
    => /\ last.returned
       /\ ~last.retOk
       /\ last.setup = 0
       /\ ~last.connFailed
       /\ last.sockAtCall = None
       /\ sock = None
       /\ peer = "none"
       /\ stream = <<>>

\* C21's case: a connect() of a UNIX client on Windows, directly after
\* another, returned false and set nothing up.
C21_Witness ==
    /\ last.op = "connect"
    /\ last.prev.op = "connect"
    /\ sock_type = "UNIX"
    /\ platformSystem = "Windows"
    /\ ~last.retOk
    /\ last.setup = 0
    /\ sock = None

\* C22: when the command is given as the program argument, the text handed
\* to sendCommand is the argument with only its leading and trailing
\* whitespace taken off, nothing inserted between its characters; and for an
\* argument that does not start with "[" the daemon receives "[1] " followed
\* by it.
C22_ArgumentSentAsTyped ==
    (cli.mode = "arg" /\ last.op = "sendCommand")
    => /\ IsTrimOf(last.cmd, cli.arg)
       /\ (SentOnLiveConnection /\ cli.arg[1] # 91)
          => last.tx = Encode(<<91, 49, 93, 32>> \o last.cmd).bytes

====
